---- MODULE Spec2Model ----
(***************************************************************************)
(* Model of server/update_data/purpleair.py: the AQI calculator            *)
(* (aqi_from_pm, _apply_epa_correction, _aqi), the API response parser     *)
(* (parse_api), the dual-channel reconciler (parse_json, _parse_results,   *)
(* _valid_result, _parse_result) and compact_sensor_data.                  *)
(*                                                                         *)
(* Numbers.  Concentrations are fixed-point, in units of 1e-4 ug/m3, so    *)
(* that the EPA coefficients 0.534, 0.0844, 5.604 and the breakpoints      *)
(* 12.1 ... 350.5 are exact integers; every concentration fed to the model *)
(* is a multiple of 0.1 ug/m3.  Relative humidity is an integer.  Python's *)
(* None / JSON null is the value None below.  A JSON object (a Python      *)
(* dict) is a function whose DOMAIN is the set of keys that are present.   *)
(***************************************************************************)
EXTENDS Integers, Sequences, FiniteSets, TLC

VARIABLES
    pc,         \* "idle" before the call, "done" after it
    op,         \* the function that was called
    data,       \* the argument of the call
    channel_a,  \* parse_json: list of results without ParentID
    channel_b,  \* parse_json: dict ParentID -> result
    sensors,    \* the returned Sensors.sensors (empty when the call raised)
    origin,     \* history: origin[j] = index (in channel_a / in data.data)
                \* of the source record that produced sensors[j]
    error,      \* "none", or the exception the call raised
    errorAt,    \* history: index of the record being processed at the raise
    compact,    \* the Sensors.sensors returned by compact_sensor_data
    aqi         \* the value returned by aqi_from_pm

vars == <<pc, op, data, channel_a, channel_b, sensors, origin, error, errorAt, compact, aqi>>

\* Bounds of the model
MaxLen == 3     \* results in a legacy payload
MaxRows == 3    \* rows in an API payload

None == 0 - 1

Max(a, b) == IF a >= b THEN a ELSE b

Truthy(x) == x # None /\ x # 0

-----------------------------------------------------------------------------
(* AQI calculator *)

\* Python round() of the rational n/d (d > 0): nearest integer, ties to even.
Round(n, d) ==
    LET q == n \div d
        r == n % d
    IN  IF 2 * r < d THEN q
        ELSE IF 2 * r > d THEN q + 1
        ELSE IF q % 2 = 0 THEN q ELSE q + 1

\* ((ih - il) / (bph - bpl)) * (pm - bpl) + il, rounded
_aqi(pm, ih, il, bph, bpl) ==
    Round((ih - il) * (pm - bpl) + il * (bph - bpl), bph - bpl)

\* The linear EPA formula before the floor: 0.534*pm - 0.0844*rh + 5.604.
\* pm is a multiple of 0.1 ug/m3 (1000 units), so the division is exact.
EpaLinear(pm, rh) == 534 * (pm \div 1000) - 844 * rh + 56040

_apply_epa_correction_nofloor(pm, rh) == EpaLinear(pm, rh)

_apply_epa_correction(pm, rh) == Max(0, EpaLinear(pm, rh))

\* The band selection of aqi_from_pm, on the corrected concentration
Band(corrected_pm) ==
    IF corrected_pm > 3505000 THEN _aqi(corrected_pm, 500, 401, 5000000, 3505000)
    ELSE IF corrected_pm > 2505000 THEN _aqi(corrected_pm, 400, 301, 3504000, 2505000)
    ELSE IF corrected_pm > 1505000 THEN _aqi(corrected_pm, 300, 201, 2504000, 1505000)
    ELSE IF corrected_pm > 555000 THEN _aqi(corrected_pm, 200, 151, 1504000, 555000)
    ELSE IF corrected_pm > 355000 THEN _aqi(corrected_pm, 150, 101, 554000, 355000)
    ELSE IF corrected_pm > 121000 THEN _aqi(corrected_pm, 100, 51, 354000, 121000)
    ELSE _aqi(corrected_pm, 50, 0, 120000, 0)

aqi_from_pm(pm, rh) ==
    LET corrected_pm == IF rh # None THEN _apply_epa_correction(pm, rh) ELSE pm
    IN  Band(corrected_pm)

\* A concentration given in tenths of ug/m3, in the model's unit
Tenths(t) == t * 1000

-----------------------------------------------------------------------------
(* model_pb2.Sensor *)

Sensor(id, latitude, longitude, a10m, a30m, a1h, a6h, a24h, last_updated) ==
    [id |-> id, latitude |-> latitude, longitude |-> longitude,
     aqi_10m |-> a10m, aqi_30m |-> a30m, aqi_1h |-> a1h, aqi_6h |-> a6h,
     aqi_24h |-> a24h, last_updated |-> last_updated]

\* The outcome of a parse: the records yielded so far and the exception, if any
Outcome(ss, og, err, at) == [sensors |-> ss, origin |-> og, error |-> err, errorAt |-> at]

-----------------------------------------------------------------------------
(* Dual-channel reconciler: parse_json and its helpers *)

\* dict.get(key) with default None
Get(d, key) == IF key \in DOMAIN d THEN d[key] ELSE None

\* json.loads of the embedded Stats text.  The text is the sequence of its
\* <<key, value>> members; the decoded object keeps, for each key, the value
\* of the last member with that key.
json_loads(text) ==
    LET keys == {text[i][1] : i \in 1..Len(text)}
        last(k) == CHOOSE i \in 1..Len(text) :
                      /\ text[i][1] = k
                      /\ \A j \in 1..Len(text) : text[j][1] = k => j <= i
    IN  [k \in keys |-> text[last(k)][2]]

StatsKeys == {"v1", "v2", "v3", "v4", "v5", "lastModified"}

\* Every result of the payloads below carries an integer AGE, so int(...) is
\* the identity and the subscript never raises.
_valid_result(result) ==
    IF "DEVICE_LOCATIONTYPE" \in DOMAIN result
          /\ result["DEVICE_LOCATIONTYPE"] # "outside" THEN FALSE
    ELSE IF result["AGE"] > 300 THEN FALSE
    ELSE "Lat" \in DOMAIN result /\ "Lon" \in DOMAIN result /\ "Stats" \in DOMAIN result

\* _parse_result raises KeyError when a key it subscripts is absent
_parse_result_raises(result) ==
    \/ ~ ({"ID", "Lat", "Lon", "Stats"} \subseteq DOMAIN result)
    \/ ~ (StatsKeys \subseteq DOMAIN json_loads(result["Stats"]))

\* ID, Lat, Lon and humidity are numbers in the payloads below, on which
\* int(...) and float(...) keep the value.
_parse_result(result) ==
    LET stats == json_loads(result["Stats"])
        rh == IF "humidity" \in DOMAIN result THEN result["humidity"] ELSE None
    IN  Sensor(result["ID"], result["Lat"], result["Lon"],
               aqi_from_pm(stats["v1"], rh), aqi_from_pm(stats["v2"], rh),
               aqi_from_pm(stats["v3"], rh), aqi_from_pm(stats["v4"], rh),
               aqi_from_pm(stats["v5"], rh), stats["lastModified"])

Selected_flag_ignored(result, cb) ==
    IF ~ _valid_result(result) THEN <<>>
    ELSE <<result>>

Selected_fallback_first(result, cb) ==
    IF /\ Truthy(Get(result, "Flag"))
       /\ result["ID"] \in DOMAIN cb
       /\ _valid_result(cb[result["ID"]])
       /\ ~ Truthy(Get(cb[result["ID"]], "Flag"))
    THEN <<cb[result["ID"]]>>
    ELSE IF ~ _valid_result(result) \/ Truthy(Get(result, "Flag")) THEN <<>>
    ELSE <<result>>

\* The body of the loop of _parse_results for one channel-A result: the
\* results handed to _parse_result (none, the result itself, or its channel B)
Selected(result, cb) ==
    IF ~ _valid_result(result) THEN <<>>
    ELSE IF Truthy(Get(result, "Flag")) THEN
        IF /\ result["ID"] \in DOMAIN cb
           /\ _valid_result(cb[result["ID"]])
           /\ ~ Truthy(Get(cb[result["ID"]], "Flag"))
        THEN <<cb[result["ID"]]>>
        ELSE <<>>
    ELSE <<result>>

RECURSIVE ParseResultsFrom(_, _, _, _)
ParseResultsFrom(ca, cb, k, acc) ==
    IF k > Len(ca) THEN acc
    ELSE IF "ParentID" \in DOMAIN ca[k] THEN Outcome(<<>>, <<>>, "AssertionError", k)
    ELSE LET sel == Selected(ca[k], cb)
         IN  IF sel = <<>> THEN ParseResultsFrom(ca, cb, k + 1, acc)
             ELSE IF _parse_result_raises(sel[1]) THEN Outcome(<<>>, <<>>, "KeyError", k)
             ELSE ParseResultsFrom(ca, cb, k + 1,
                     Outcome(Append(acc.sensors, _parse_result(sel[1])),
                             Append(acc.origin, k), "none", 0))

\* list(_parse_results(channel_a, channel_b))
_parse_results(ca, cb) == ParseResultsFrom(ca, cb, 1, Outcome(<<>>, <<>>, "none", 0))

\* The partition loop of parse_json
ChannelA(results) == SelectSeq(results, LAMBDA r : "ParentID" \notin DOMAIN r)

ChannelB_first_wins(results) ==
    LET parents == {results[i]["ParentID"] : i \in {j \in 1..Len(results) : "ParentID" \in DOMAIN results[j]}}
        first(p) == CHOOSE i \in 1..Len(results) :
                      /\ "ParentID" \in DOMAIN results[i] /\ results[i]["ParentID"] = p
                      /\ \A j \in 1..Len(results) :
                            ("ParentID" \in DOMAIN results[j] /\ results[j]["ParentID"] = p) => j >= i
    IN  [p \in parents |-> results[first(p)]]

ChannelB(results) ==
    LET parents == {results[i]["ParentID"] : i \in {j \in 1..Len(results) : "ParentID" \in DOMAIN results[j]}}
        last(p) == CHOOSE i \in 1..Len(results) :
                      /\ "ParentID" \in DOMAIN results[i] /\ results[i]["ParentID"] = p
                      /\ \A j \in 1..Len(results) :
                            ("ParentID" \in DOMAIN results[j] /\ results[j]["ParentID"] = p) => j <= i
    IN  [p \in parents |-> results[last(p)]]

parse_json(d) == _parse_results(ChannelA(d["results"]), ChannelB(d["results"]))

-----------------------------------------------------------------------------
(* Legacy payloads fed to parse_json *)

SensorIDs == {1, 2}

\* The sensors that have a channel B in these payloads
ParentIDs == {1}

StatsText(id) ==
    << <<"v1", Tenths(100 * id + 10)>>, <<"v2", Tenths(100 * id + 20)>>,
       <<"v3", Tenths(100 * id + 30)>>, <<"v4", Tenths(100 * id + 40)>>,
       <<"v5", Tenths(100 * id + 50)>>, <<"lastModified", 1000 + id>> >>

\* A result with no data-quality defect: sensor id reports from (30+id, 120+id)
CleanBase(id) ==
    [ID |-> id, AGE |-> 60, Lat |-> 30 + id, Lon |-> 120 + id,
     Stats |-> StatsText(id), humidity |-> 40 + id]

With(r, key, val) == (key :> val) @@ r
Without(r, key) == [k \in DOMAIN r \ {key} |-> r[k]]

CleanResults ==
    UNION { {CleanBase(id), With(CleanBase(id), "Flag", 1)} \cup
            UNION { {With(CleanBase(id), "ParentID", p),
                     With(With(CleanBase(id), "ParentID", p), "Flag", 1)} : p \in ParentIDs }
            : id \in SensorIDs }

Variants == {"inside", "outside", "stale", "age300", "noLat", "noLon", "noStats",
             "zeroLat", "zeroLon", "noV5", "noHumidity"}

Alter(r, v) ==
    CASE v = "inside"     -> With(r, "DEVICE_LOCATIONTYPE", "inside")
      [] v = "outside"    -> With(r, "DEVICE_LOCATIONTYPE", "outside")
      [] v = "stale"      -> [r EXCEPT !["AGE"] = 301]
      [] v = "age300"     -> [r EXCEPT !["AGE"] = 300]
      [] v = "noLat"      -> Without(r, "Lat")
      [] v = "noLon"      -> Without(r, "Lon")
      [] v = "noStats"    -> Without(r, "Stats")
      [] v = "zeroLat"    -> [r EXCEPT !["Lat"] = 0]
      [] v = "zeroLon"    -> [r EXCEPT !["Lon"] = 0]
      [] v = "noV5"       -> [r EXCEPT !["Stats"] = SubSeq(r["Stats"], 1, 4) \o <<r["Stats"][6]>>]
      [] v = "noHumidity" -> Without(r, "humidity")

\* Result lists of at most MaxLen results, of which at most one is altered
Alterations(n) == {<<0, "none">>} \cup ((1..n) \X Variants)

Altered(s, alt) == IF alt[1] = 0 THEN s ELSE [s EXCEPT ![alt[1]] = Alter(s[alt[1]], alt[2])]

-----------------------------------------------------------------------------
(* API response parser: parse_api *)

_API_FIELDS ==
    <<"sensor_index", "latitude", "longitude", "humidity", "pm2.5_10minute",
      "pm2.5_30minute", "pm2.5_60minute", "pm2.5_6hour", "pm2.5_24hour", "last_seen">>

pm_fields ==
    <<"pm2.5_10minute", "pm2.5_30minute", "pm2.5_60minute", "pm2.5_6hour", "pm2.5_24hour">>

Range(seq) == {seq[i] : i \in 1..Len(seq)}

\* list.index(n): the first position of n
Index(seq, n) == CHOOSE i \in 1..Len(seq) : seq[i] = n /\ \A j \in 1..(i - 1) : seq[j] # n

\* Building field_indexes raises ValueError when a field name is absent
field_indexes_raises(fields) == ~ (Range(_API_FIELDS) \subseteq Range(fields))

field_indexes(fields) == [n \in Range(_API_FIELDS) |-> Index(fields, n)]

\* The two "continue" tests of the loop of parse_api, negated
RowKept_latitude_only(item, fi) ==
    /\ Truthy(item[fi["latitude"]])
    /\ \A k \in 1..Len(pm_fields) : Truthy(item[fi[pm_fields[k]]])

RowKept(item, fi) ==
    /\ Truthy(item[fi["latitude"]]) /\ Truthy(item[fi["longitude"]])
    /\ \A k \in 1..Len(pm_fields) : Truthy(item[fi[pm_fields[k]]])

RowSensor_wrong_id(item, fi) ==
    LET humidity == item[fi["humidity"]]
    IN  Sensor(item[fi["humidity"]], item[fi["latitude"]], item[fi["longitude"]],
               aqi_from_pm(item[fi["pm2.5_10minute"]], humidity),
               aqi_from_pm(item[fi["pm2.5_30minute"]], humidity),
               aqi_from_pm(item[fi["pm2.5_60minute"]], humidity),
               aqi_from_pm(item[fi["pm2.5_6hour"]], humidity),
               aqi_from_pm(item[fi["pm2.5_24hour"]], humidity),
               item[fi["last_seen"]])

\* The model_pb2.Sensor built from a row
RowSensor(item, fi) ==
    LET humidity == item[fi["humidity"]]
    IN  Sensor(item[fi["sensor_index"]], item[fi["latitude"]], item[fi["longitude"]],
               aqi_from_pm(item[fi["pm2.5_10minute"]], humidity),
               aqi_from_pm(item[fi["pm2.5_30minute"]], humidity),
               aqi_from_pm(item[fi["pm2.5_60minute"]], humidity),
               aqi_from_pm(item[fi["pm2.5_6hour"]], humidity),
               aqi_from_pm(item[fi["pm2.5_24hour"]], humidity),
               item[fi["last_seen"]])

RECURSIVE ParseRowsFrom(_, _, _, _)
ParseRowsFrom(rows, fi, k, acc) ==
    IF k > Len(rows) THEN acc
    ELSE IF ~ RowKept(rows[k], fi) THEN ParseRowsFrom(rows, fi, k + 1, acc)
    ELSE ParseRowsFrom(rows, fi, k + 1,
            Outcome(Append(acc.sensors, RowSensor(rows[k], fi)),
                    Append(acc.origin, k), "none", 0))

parse_api(response) ==
    IF field_indexes_raises(response["fields"]) THEN Outcome(<<>>, <<>>, "ValueError", 0)
    ELSE ParseRowsFrom(response["data"], field_indexes(response["fields"]), 1,
                       Outcome(<<>>, <<>>, "none", 0))

-----------------------------------------------------------------------------
(* API payloads fed to parse_api *)

Reverse(seq) == [i \in 1..Len(seq) |-> seq[Len(seq) + 1 - i]]

\* The column orders of the payloads; the last one lacks "humidity"
FieldOrders ==
    {_API_FIELDS, Reverse(_API_FIELDS), SubSeq(_API_FIELDS, 1, 3) \o SubSeq(_API_FIELDS, 5, 10)}

\* The values of a row with no data-quality defect, by field name
CleanRow(id) ==
    ("sensor_index" :> id) @@ ("latitude" :> 30 + id) @@ ("longitude" :> 120 + id) @@
    ("humidity" :> 45) @@ ("pm2.5_10minute" :> Tenths(100 * id + 10)) @@
    ("pm2.5_30minute" :> Tenths(100 * id + 20)) @@ ("pm2.5_60minute" :> Tenths(100 * id + 30)) @@
    ("pm2.5_6hour" :> Tenths(100 * id + 40)) @@ ("pm2.5_24hour" :> Tenths(100 * id + 50)) @@
    ("last_seen" :> 1000 + id)

\* One cell of a row set to null or to zero
RowAlterations(n) ==
    {<<0, "none", 0>>} \cup
    ((1..n) \X (Range(pm_fields) \cup {"latitude", "longitude", "humidity"}) \X {None, 0})

AlteredRows(s, alt) ==
    IF alt[1] = 0 THEN s ELSE [s EXCEPT ![alt[1]] = [@ EXCEPT ![alt[2]] = alt[3]]]

\* The row array in the payload's column order
MakeRow(fields, values) == [i \in 1..Len(fields) |-> values[fields[i]]]

-----------------------------------------------------------------------------
(* Compaction *)

compact_sensor_data_all_fields(ss) == ss

compact_sensor_data(ss) ==
    [i \in 1..Len(ss) |->
        Sensor(ss[i].id, ss[i].latitude, ss[i].longitude, ss[i].aqi_10m, 0, 0, 0, 0, 0)]

-----------------------------------------------------------------------------
(* Inputs of direct calls of aqi_from_pm *)

PmSamples ==
    {Tenths(t) : t \in {0, 1, 120, 121, 122, 354, 355, 356, 554, 555, 556, 1000,
                        1504, 1505, 1506, 2504, 2505, 2506, 3504, 3505, 3506, 5000}}

RhSamples == {None, 0, 50, 100, 200}

-----------------------------------------------------------------------------
(* The calls *)

Init ==
    /\ pc = "idle"
    /\ op = "none"
    /\ data = <<>>
    /\ channel_a = <<>>
    /\ channel_b = <<>>
    /\ sensors = <<>>
    /\ origin = <<>>
    /\ error = "none"
    /\ errorAt = 0
    /\ compact = <<>>
    /\ aqi = None

ParseJson ==
    /\ pc = "idle"
    /\ \E n \in 0..MaxLen : \E s \in [1..n -> CleanResults] : \E alt \in Alterations(n) :
         LET results == Altered(s, alt)
             d == [results |-> results]
             out == parse_json(d)
         IN  /\ data' = d
             /\ channel_a' = ChannelA(results)
             /\ channel_b' = ChannelB(results)
             /\ sensors' = out.sensors
             /\ origin' = out.origin
             /\ error' = out.error
             /\ errorAt' = out.errorAt
    /\ pc' = "done"
    /\ op' = "parse_json"
    /\ UNCHANGED <<compact, aqi>>

ParseApi ==
    /\ pc = "idle"
    /\ \E fields \in FieldOrders : \E n \in 0..MaxRows :
       \E s \in [1..n -> {CleanRow(id) : id \in SensorIDs}] : \E alt \in RowAlterations(n) :
         LET rows == AlteredRows(s, alt)
             d == [fields |-> fields, data |-> [i \in 1..n |-> MakeRow(fields, rows[i])]]
             out == parse_api(d)
         IN  /\ data' = d
             /\ sensors' = out.sensors
             /\ origin' = out.origin
             /\ error' = out.error
             /\ errorAt' = out.errorAt
    /\ pc' = "done"
    /\ op' = "parse_api"
    /\ UNCHANGED <<channel_a, channel_b, compact, aqi>>

\* compact_sensor_data applied to the collection a parse returned; the
\* locals of the finished parse are gone
CompactSensorData ==
    /\ pc = "done"
    /\ op \in {"parse_json", "parse_api"}
    /\ error = "none"
    /\ compact' = compact_sensor_data(sensors)
    /\ pc' = "compacted"
    /\ data' = <<>>
    /\ channel_a' = <<>>
    /\ channel_b' = <<>>
    /\ origin' = <<>>
    /\ UNCHANGED <<op, sensors, error, errorAt, aqi>>

AqiFromPm ==
    /\ pc = "idle"
    /\ \E pm \in PmSamples : \E rh \in RhSamples :
         /\ data' = [pm |-> pm, rh |-> rh]
         /\ aqi' = aqi_from_pm(pm, rh)
    /\ pc' = "done"
    /\ op' = "aqi_from_pm"
    /\ UNCHANGED <<channel_a, channel_b, sensors, origin, error, errorAt, compact>>

Next == ParseJson \/ ParseApi \/ CompactSensorData \/ AqiFromPm

Spec == Init /\ [][Next]_vars

-----------------------------------------------------------------------------
(* Vocabulary of the properties *)

Returned(f) == pc = "done" /\ op = f /\ error = "none"

Raised(f) == pc = "done" /\ op = f /\ error # "none"

Flagged(r) == "Flag" \in DOMAIN r /\ r["Flag"] # 0

\* The validity predicate as the specification words it
Invalid(r) ==
    \/ ("DEVICE_LOCATIONTYPE" \in DOMAIN r /\ r["DEVICE_LOCATIONTYPE"] # "outside")
    \/ r["AGE"] > 300
    \/ "Lat" \notin DOMAIN r \/ "Lon" \notin DOMAIN r \/ "Stats" \notin DOMAIN r

IsB(r) == "ParentID" \in DOMAIN r

\* Positions in the payload of the channel-B results of sensor id
BsOf(results, id) == {i \in 1..Len(results) : IsB(results[i]) /\ results[i]["ParentID"] = id}

\* The last member of the Stats text with the given key
StatOf(r, key) ==
    r["Stats"][CHOOSE i \in 1..Len(r["Stats"]) :
                  /\ r["Stats"][i][1] = key
                  /\ \A j \in (i + 1)..Len(r["Stats"]) : r["Stats"][j][1] # key][2]

\* Sensor record s carries the ID, location, Stats windows and timestamp of r
BuiltFrom(s, r) ==
    LET rh == IF "humidity" \in DOMAIN r THEN r["humidity"] ELSE None
    IN  /\ s.id = r["ID"] /\ s.latitude = r["Lat"] /\ s.longitude = r["Lon"]
        /\ s.aqi_10m = aqi_from_pm(StatOf(r, "v1"), rh)
        /\ s.aqi_30m = aqi_from_pm(StatOf(r, "v2"), rh)
        /\ s.aqi_1h = aqi_from_pm(StatOf(r, "v3"), rh)
        /\ s.aqi_6h = aqi_from_pm(StatOf(r, "v4"), rh)
        /\ s.aqi_24h = aqi_from_pm(StatOf(r, "v5"), rh)
        /\ s.last_updated = StatOf(r, "lastModified")

\* The output records that channel-A result k produced
YieldsOf(k) == {j \in 1..Len(origin) : origin[j] = k}

\* Position in the payload of the k-th channel-A result
PosOfA(results, k) ==
    CHOOSE i \in 1..Len(results) :
        /\ ~ IsB(results[i])
        /\ Cardinality({j \in 1..i : ~ IsB(results[j])}) = k

\* Channel-A result k is valid and flagged
FlaggedPrimary(k) == ~ Invalid(channel_a[k]) /\ Flagged(channel_a[k])

GoodB(r) == ~ Invalid(r) /\ ~ Flagged(r)

-----------------------------------------------------------------------------
(* C1 *)

-----------------------------------------------------------------------------
(* C2 *)

\* C2 as stated: a valid flagged channel-A result with ID s and no result
\* with ParentID s: the call returns normally and no returned record has id s.
C2_Original ==
    (pc = "done" /\ op = "parse_json") =>
        \A k \in 1..Len(channel_a) :
            (FlaggedPrimary(k) /\ BsOf(data.results, channel_a[k]["ID"]) = {}) =>
                /\ error = "none"
                /\ \A j \in 1..Len(sensors) : sensors[j].id # channel_a[k]["ID"]

\* C2 amended: such a result contributes no record and is never the result
\* at which the call raises; a returned record with id s, if any, was built
\* from another result of the payload that carries ID s.
C2_FlaggedWithoutChannelBDropped ==
    (pc = "done" /\ op = "parse_json") =>
        \A k \in 1..Len(channel_a) :
            (FlaggedPrimary(k) /\ BsOf(data.results, channel_a[k]["ID"]) = {}) =>
                /\ YieldsOf(k) = {}
                /\ error # "none" => errorAt # k
                /\ \A j \in 1..Len(sensors) :
                      sensors[j].id = channel_a[k]["ID"] =>
                          \E i \in 1..Len(data.results) :
                              /\ i # PosOfA(data.results, k)
                              /\ data.results[i]["ID"] = channel_a[k]["ID"]

\* A returned call with a dropped flagged primary next to emitted records
C2_Witness ==
    /\ Returned("parse_json")
    /\ Len(sensors) >= 1
    /\ \E k \in 1..Len(channel_a) :
         /\ FlaggedPrimary(k)
         /\ BsOf(data.results, channel_a[k]["ID"]) = {}
         /\ \A j \in 1..Len(sensors) : sensors[j].id # channel_a[k]["ID"]

-----------------------------------------------------------------------------
(* C3 *)

CompleteStats(r) ==
    \A key \in StatsKeys : \E i \in 1..Len(r["Stats"]) : r["Stats"][i][1] = key

\* The value of field n in row k of the API table
Cell(k, n) == data.data[k][Index(data.fields, n)]

RowComplete(k) ==
    \A n \in {"latitude", "longitude"} \cup Range(pm_fields) : Cell(k, n) \notin {None, 0}

\* C3 as stated: when the outer payload is well-formed (for parse_api: every
\* expected field name is listed), a record with a data-quality defect never
\* makes the call raise, and every clean record of the payload is returned.
C3_DefectsNeverAbort ==
    /\ (pc = "done" /\ op = "parse_json") =>
          /\ error = "none"
          /\ \A k \in 1..Len(channel_a) :
                ( /\ ~ Invalid(channel_a[k]) /\ ~ Flagged(channel_a[k])
                  /\ CompleteStats(channel_a[k]) ) => YieldsOf(k) # {}
    /\ (pc = "done" /\ op = "parse_api" /\ Range(_API_FIELDS) \subseteq Range(data.fields)) =>
          /\ error = "none"
          /\ \A k \in 1..Len(data.data) : RowComplete(k) => YieldsOf(k) # {}

-----------------------------------------------------------------------------
(* C4 *)

\* C4 as stated: every record returned by parse_api or parse_json has a
\* non-zero latitude and a non-zero longitude.
C4_CoordinatesNonZero ==
    (pc = "done" /\ op \in {"parse_api", "parse_json"}) =>
        \A j \in 1..Len(sensors) :
            sensors[j].latitude \notin {None, 0} /\ sensors[j].longitude \notin {None, 0}

-----------------------------------------------------------------------------
(* C5 *)

-----------------------------------------------------------------------------
(* C6 *)

\* C6: parse_api returns a record for a row iff the row's latitude,
\* longitude and five PM windows are all truthy, one record per such row,
\* in the order of the rows, carrying the row's sensor_index and coordinates.
C6_RowsKeptIffComplete ==
    Returned("parse_api") =>
        /\ Len(origin) = Len(sensors)
        /\ \A j \in 1..(Len(origin) - 1) : origin[j] < origin[j + 1]
        /\ {origin[j] : j \in 1..Len(origin)} = {k \in 1..Len(data.data) : RowComplete(k)}
        /\ \A j \in 1..Len(origin) :
              /\ sensors[j].id = Cell(origin[j], "sensor_index")
              /\ sensors[j].latitude = Cell(origin[j], "latitude")
              /\ sensors[j].longitude = Cell(origin[j], "longitude")

\* Three rows, the middle one lacking a value, the other two returned
C6_Witness ==
    /\ Returned("parse_api")
    /\ Len(data.data) = 3
    /\ ~ RowComplete(2)
    /\ origin = <<1, 3>>
    /\ Len(sensors) = 2

-----------------------------------------------------------------------------
(* C7 *)

\* C7: a channel-A result that fails the validity predicate contributes no
\* record and is not the result at which the call raises, flagged or not,
\* also when a valid unflagged channel-B result carries its ID as ParentID.
C7_InvalidPrimaryDropped ==
    (pc = "done" /\ op = "parse_json") =>
        \A k \in 1..Len(channel_a) :
            Invalid(channel_a[k]) => (YieldsOf(k) = {} /\ errorAt # k)

\* A returned call with an invalid flagged primary whose channel B is clean
C7_Witness ==
    /\ Returned("parse_json")
    /\ \E k \in 1..Len(channel_a) :
         /\ Invalid(channel_a[k])
         /\ Flagged(channel_a[k])
         /\ \E i \in BsOf(data.results, channel_a[k]["ID"]) : GoodB(data.results[i])
         /\ \A j \in 1..Len(sensors) : origin[j] # k

-----------------------------------------------------------------------------
(* C8 *)

\* C8 as stated: aqi_from_pm(100, rh=200) is 0, the score of aqi_from_pm(0).
C8_Original ==
    (pc = "done" /\ op = "aqi_from_pm" /\ data.pm = Tenths(1000) /\ data.rh = 200) => aqi = 0

\* C8 amended: the corrected concentration of (100, 200) is 42.124, which
\* is positive, and the score is 117; whenever 0.534*pm - 0.0844*rh + 5.604
\* is negative, as for pm = 0 and rh = 200, the score is 0, that of
\* aqi_from_pm(0, rh=None).
C8_FloorWhenNegative ==
    (pc = "done" /\ op = "aqi_from_pm") =>
        /\ (data.pm = Tenths(1000) /\ data.rh = 200) => aqi = 117
        /\ (data.rh # None /\ EpaLinear(data.pm, data.rh) < 0) => aqi = 0
        /\ (data.pm = 0 /\ data.rh = None) => aqi = 0

\* The call aqi_from_pm(0, rh=200), whose linear correction is negative
C8_Witness ==
    /\ pc = "done" /\ op = "aqi_from_pm"
    /\ data.pm = 0 /\ data.rh = 200
    /\ aqi = 0

-----------------------------------------------------------------------------
(* C9 *)

\* C9 as stated: a concentration equal to a breakpoint 12.1, 35.5, 55.5,
\* 150.5, 250.5, 350.5 (no humidity) scores the AQI low of the band that
\* starts there: 51, 101, 151, 201, 301, 401.
C9_BreakpointInHigherBand ==
    (pc = "done" /\ op = "aqi_from_pm" /\ data.rh = None) =>
        /\ data.pm = Tenths(121) => aqi = 51
        /\ data.pm = Tenths(355) => aqi = 101
        /\ data.pm = Tenths(555) => aqi = 151
        /\ data.pm = Tenths(1505) => aqi = 201
        /\ data.pm = Tenths(2505) => aqi = 301
        /\ data.pm = Tenths(3505) => aqi = 401

-----------------------------------------------------------------------------
(* C10 *)

====
